---- MODULE Spec2Model ----
(***************************************************************************)
(* A model of FileHandler (src/src/file-handler.ts): the download of the   *)
(* attachments of a Slack message, the signature check of image bytes, the *)
(* assembly of content blocks, and the cleanup of temporary files.         *)
(*                                                                         *)
(* Strings of the program are TLA+ strings (Len, \o and SubSeq act on them *)
(* character by character).  A Buffer is a sequence of bytes 0..255.       *)
(***************************************************************************)
EXTENDS Integers, Sequences, FiniteSets, TLC

VARIABLES
    hdrBuf,          \* hasValidImageHeader: the buffer passed in
    hdrDone,         \* hasValidImageHeader has returned
    hdrRes,          \* hasValidImageHeader: the value returned
    dlFiles,         \* downloadAndProcessFiles: the argument `files`
    dlIdx,           \* position of the for-of loop (1-based)
    dlPc,            \* "loop" | "fetch" | "body" | "done" | "raised"
    processedFiles,  \* the local array processedFiles
    dlReturned,      \* the value returned by downloadAndProcessFiles
    dlRaised,        \* TRUE when an exception left downloadAndProcessFiles
    requests,        \* the calls of fetch(), in order
    received,        \* the response bodies read, in order
    writes,          \* the calls of fs.writeFileSync that succeeded, in order
    disk,            \* temp directory after the writes: path -> bytes
    now,             \* Date.now()
    dlLog,           \* what the logger received, one record per message
    bFiles,          \* buildContentBlocks: the argument `files`
    userText,        \* buildContentBlocks: the argument `userText`
    fs,              \* the file system buildContentBlocks reads: path -> bytes
    bIdx,            \* position of the for-of loop (1-based)
    bPc,             \* "start" | "loop" | "done" | "raised"
    blocks,          \* the local array blocks
    textParts,       \* the local array textParts
    reads,           \* the paths passed to fs.readFileSync, in order
    bReturned,       \* the value returned by buildContentBlocks
    bRaised,         \* TRUE when an exception left buildContentBlocks
    cFiles,          \* cleanupTempFiles: the argument `files`
    cIdx,            \* position of the for-of loop (1-based)
    cPc,             \* "loop" | "done" | "raised"
    cExists,         \* the paths that exist in the temp directory
    attempts,        \* the paths passed to fs.unlinkSync, in order
    unlinked,        \* the paths fs.unlinkSync removed, in order
    cRaised          \* TRUE when an exception left cleanupTempFiles

hdrVars == <<hdrBuf, hdrDone, hdrRes>>
dlVars  == <<dlFiles, dlIdx, dlPc, processedFiles, dlReturned, dlRaised,
             requests, received, writes, disk, now, dlLog>>
bldVars == <<bFiles, userText, fs, bIdx, bPc, blocks, textParts, reads,
             bReturned, bRaised>>
clnVars == <<cFiles, cIdx, cPc, cExists, attempts, unlinked, cRaised>>
vars    == <<hdrVars, dlVars, bldVars, clnVars>>

----------------------------------------------------------------------------
(* Bounds of the model *)

MaxBufLen == 12
MaxFiles == 2
MaxClock == 1
MaxBuildFiles == 2
MaxCleanFiles == 3

----------------------------------------------------------------------------
(* JavaScript values *)

\* `undefined`, for a property a descriptor does not have.
Undefined == "<undefined>"

\* `null`, the value downloadFile returns for a file it gives up on.
Null == [null |-> TRUE]

\* The outcome of a statement that threw instead of yielding a value.
Throw == [throw |-> TRUE]

\* `null`, where the program expects a string.
NullString == "<null>"

\* JavaScript truthiness of a string, undefined or null.
Truthy(v) == v # Undefined /\ v # NullString /\ v # ""

\* a || b
OrElse(a, b) == IF Truthy(a) THEN a ELSE b

\* String.prototype.startsWith
StartsWith(s, prefix) ==
    Len(s) >= Len(prefix) /\ SubSeq(s, 1, Len(prefix)) = prefix

\* buffer[i], 0-based; out of range reads give undefined (-1 here).
At(buffer, i) == IF i < Len(buffer) THEN buffer[i + 1] ELSE -1

----------------------------------------------------------------------------
(* Signature Validator *)

\* A variant without the length test of line 139.
hasValidImageHeader_NoLengthGuard(buffer) ==
    IF At(buffer, 0) = 137 /\ At(buffer, 1) = 80 /\ At(buffer, 2) = 78 /\ At(buffer, 3) = 71
    THEN TRUE
    ELSE IF At(buffer, 0) = 255 /\ At(buffer, 1) = 216 /\ At(buffer, 2) = 255
    THEN TRUE
    ELSE IF At(buffer, 0) = 71 /\ At(buffer, 1) = 73 /\ At(buffer, 2) = 70 /\ At(buffer, 3) = 56
    THEN TRUE
    ELSE IF At(buffer, 0) = 82 /\ At(buffer, 1) = 73 /\ At(buffer, 2) = 70 /\ At(buffer, 3) = 70
            /\ Len(buffer) >= 12
            /\ At(buffer, 8) = 87 /\ At(buffer, 9) = 69 /\ At(buffer, 10) = 66 /\ At(buffer, 11) = 80
    THEN TRUE
    ELSE FALSE

hasValidImageHeader(buffer) ==
    IF Len(buffer) < 4 THEN FALSE
    \* PNG: 89 50 4E 47
    ELSE IF At(buffer, 0) = 137 /\ At(buffer, 1) = 80 /\ At(buffer, 2) = 78 /\ At(buffer, 3) = 71
    THEN TRUE
    \* JPEG: FF D8 FF
    ELSE IF At(buffer, 0) = 255 /\ At(buffer, 1) = 216 /\ At(buffer, 2) = 255
    THEN TRUE
    \* GIF: 47 49 46 38
    ELSE IF At(buffer, 0) = 71 /\ At(buffer, 1) = 73 /\ At(buffer, 2) = 70 /\ At(buffer, 3) = 56
    THEN TRUE
    \* WebP: 52 49 46 46 ... 57 45 42 50
    ELSE IF At(buffer, 0) = 82 /\ At(buffer, 1) = 73 /\ At(buffer, 2) = 70 /\ At(buffer, 3) = 70
            /\ Len(buffer) >= 12
            /\ At(buffer, 8) = 87 /\ At(buffer, 9) = 69 /\ At(buffer, 10) = 66 /\ At(buffer, 11) = 80
    THEN TRUE
    ELSE FALSE

----------------------------------------------------------------------------
(* Type Classifier *)

isImageFile(mimetype) == StartsWith(mimetype, "image/")

textTypes ==
    << "text/", "application/json", "application/javascript",
       "application/typescript", "application/xml", "application/yaml",
       "application/x-yaml" >>

isTextFile(mimetype) ==
    \E k \in 1..Len(textTypes) : StartsWith(mimetype, textTypes[k])

----------------------------------------------------------------------------
(* Inputs of the signature check: the leading bytes of real files, cut to *)
(* every length up to MaxBufLen, with at most one byte replaced.          *)

PngFile  == <<137, 80, 78, 71, 13, 10, 26, 10, 0, 0, 0, 13>>
JpegFile == <<255, 216, 255, 224, 0, 16, 74, 70, 73, 70, 0, 1>>
GifFile  == <<71, 73, 70, 56, 57, 97, 1, 0, 1, 0, 128, 0>>
WebpFile == <<82, 73, 70, 70, 36, 0, 0, 0, 87, 69, 66, 80>>
WaveFile == <<82, 73, 70, 70, 36, 0, 0, 0, 87, 65, 86, 69>>
HtmlPage == <<60, 33, 68, 79, 67, 84, 89, 80, 69, 32, 104, 116>>

FileHeads == {PngFile, JpegFile, GifFile, WebpFile, WaveFile, HtmlPage}

\* The first n bytes of a file whose bytes after the listed ones are 80 ("P").
Take(head, n) == [k \in 1..n |-> IF k <= Len(head) THEN head[k] ELSE 80]

\* buffer with the byte at 1-based position k replaced by v (k = 0: unchanged).
Replace(buffer, k, v) ==
    [j \in 1..Len(buffer) |-> IF j = k THEN v ELSE buffer[j]]

HeaderInputs ==
    { Replace(Take(head, n), k, v) :
        head \in FileHeads, n \in 0..MaxBufLen, k \in 0..MaxBufLen, v \in {0, 255} }

----------------------------------------------------------------------------
(* Downloader *)

\* 50 * 1024 * 1024
MaxFileSize == 52428800

\* config.slack.botToken
BotToken == "xoxb-token"

\* os.tmpdir()
TmpDir == "/tmp"

\* A variant whose ceiling is one byte too high.
TooLarge_OffByOne(file) == file.size > MaxFileSize + 1

\* file.size > 50 * 1024 * 1024
TooLarge(file) == file.size > MaxFileSize

\* file.url_private_download || file.url_private
DownloadUrl(file) == OrElse(file.url_private_download, file.url_private)

\* response.ok
ResponseOk(status) == 200 <= status /\ status <= 299

\* A variant that trusts the declared mimetype.
RejectsBody_TrustMimetype(file, buffer) == FALSE

\* isImageFile(file.mimetype) && !hasValidImageHeader(buffer)
RejectsBody(file, buffer) ==
    isImageFile(file.mimetype) /\ ~hasValidImageHeader(buffer)

\* path.join(tempDir, `slack-file-${Date.now()}-${file.name}`)
TempPath(t, file) ==
    TmpDir \o "/" \o "slack-file-" \o ToString(t) \o "-" \o file.name

\* the ProcessedFile literal
MakeProcessed(file, tempPath) ==
    [ path     |-> tempPath,
      name     |-> file.name,
      mimetype |-> file.mimetype,
      isImage  |-> isImageFile(file.mimetype),
      isText   |-> isTextFile(file.mimetype),
      size     |-> file.size,
      tempPath |-> tempPath ]

\* try { ... } catch (error) { logger.error(...); return null; } of downloadFile
DownloadCatch(r) == IF r = Throw THEN Null ELSE r

\* try { ... } catch (error) { logger.error(...) } of downloadAndProcessFiles
ProcessCatch(r) == IF r = Throw THEN Null ELSE r

\* A variant that puts the new file in front.
Collect_Unshift(list, processed) ==
    IF processed # Null THEN <<processed>> \o list ELSE list

\* if (processed) processedFiles.push(processed)
Collect(list, processed) ==
    IF processed # Null THEN Append(list, processed) ELSE list

\* fs.writeFileSync(tempPath, buffer) on the temp directory
WriteFile(d, tempPath, buffer) ==
    [p \in DOMAIN d \cup {tempPath} |-> IF p = tempPath THEN buffer ELSE d[p]]

\* One logger call about the file at position i of the input.
LogEntry(level, msg, i) == [level |-> level, msg |-> msg, file |-> i]

(* Descriptors of the Slack files API, as the event handler passes them. *)
Mimetypes == {"image/png", "text/plain"}
Sizes == {2048, MaxFileSize, MaxFileSize + 1}
NameOf(mimetype) == IF isImageFile(mimetype) THEN "a.png" ELSE "notes.txt"

Descriptors ==
    { [ name                 |-> NameOf(m),
        mimetype             |-> m,
        size                 |-> s,
        url_private_download |-> u[1],
        url_private          |-> u[2] ] :
        m \in Mimetypes, s \in Sizes,
        u \in { <<"https://files.slack.com/download", "https://files.slack.com/view">>,
                <<Undefined, "https://files.slack.com/view">>,
                <<Undefined, "">> } }

DescriptorLists == UNION { [1..n -> Descriptors] : n \in 0..MaxFiles }

\* Response bodies a download can deliver.
Bodies == { Take(PngFile, 12), Take(HtmlPage, 12), Take(JpegFile, 3) }

\* HTTP statuses the file server answers with.
Statuses == {200, 403}

DlInit ==
    /\ dlFiles \in DescriptorLists
    /\ dlIdx = 1
    /\ dlPc = "loop"
    /\ processedFiles = <<>>
    /\ dlReturned = Null
    /\ dlRaised = FALSE
    /\ requests = <<>>
    /\ received = <<>>
    /\ writes = <<>>
    /\ disk = <<>>
    /\ now = 0
    /\ dlLog = <<>>

\* The end of one iteration of the for-of loop: the body of downloadFile's
\* try block ended with r (a ProcessedFile, or Throw) after logging `entries`.
EndIteration(r, entries) ==
    LET returned == DownloadCatch(r)
        caught   == IF r = Throw
                    THEN <<LogEntry("error", "Failed to download file", dlIdx)>>
                    ELSE <<>>
        processed == ProcessCatch(returned)
    IN
    IF processed = Throw
    THEN /\ dlRaised' = TRUE
         /\ dlPc' = "raised"
         /\ dlLog' = dlLog \o entries
         /\ UNCHANGED <<processedFiles, dlIdx>>
    ELSE /\ processedFiles' = Collect(processedFiles, processed)
         /\ dlLog' = dlLog \o entries \o caught
                       \o (IF returned = Throw
                           THEN <<LogEntry("error", "Failed to process file", dlIdx)>>
                           ELSE <<>>)
         /\ dlIdx' = dlIdx + 1
         /\ dlPc' = "loop"
         /\ UNCHANGED dlRaised

\* downloadFile up to the call of fetch (lines 56-81).
DlBegin ==
    /\ dlPc = "loop"
    /\ dlIdx <= Len(dlFiles)
    /\ LET file == dlFiles[dlIdx] IN
       IF TooLarge(file)
       THEN \* return null, before the try block
            /\ processedFiles' = Collect(processedFiles, ProcessCatch(Null))
            /\ dlLog' = Append(dlLog, LogEntry("warn", "File too large, skipping", dlIdx))
            /\ dlIdx' = dlIdx + 1
            /\ UNCHANGED <<requests, dlPc, dlRaised>>
       ELSE IF ~Truthy(DownloadUrl(file))
       THEN \* throw new Error('No download URL available for file')
            /\ EndIteration(Throw, <<LogEntry("debug", "Downloading file", dlIdx)>>)
            /\ UNCHANGED requests
       ELSE /\ requests' = Append(requests,
                              [ file          |-> dlIdx,
                                url           |-> DownloadUrl(file),
                                authorization |-> "Bearer " \o BotToken ])
            /\ dlLog' = Append(dlLog, LogEntry("debug", "Downloading file", dlIdx))
            /\ dlPc' = "fetch"
            /\ UNCHANGED <<dlIdx, processedFiles, dlRaised>>
    /\ UNCHANGED <<dlFiles, dlReturned, received, writes, disk, now>>
    /\ UNCHANGED <<hdrVars, bldVars, clnVars>>

\* await fetch(...) settles: the promise rejects, or a response arrives
\* (lines 77-85).
DlFetch ==
    /\ dlPc = "fetch"
    /\ \E rejected \in BOOLEAN, status \in Statuses :
         IF rejected \/ ~ResponseOk(status)
         THEN EndIteration(Throw, <<>>)
         ELSE /\ dlPc' = "body"
              /\ UNCHANGED <<dlIdx, processedFiles, dlLog, dlRaised>>
    /\ UNCHANGED <<dlFiles, dlReturned, requests, received, writes, disk, now>>
    /\ UNCHANGED <<hdrVars, bldVars, clnVars>>

\* await response.arrayBuffer() settles, and the rest of downloadFile runs
\* (lines 87-135).
DlBody ==
    /\ dlPc = "body"
    /\ LET file == dlFiles[dlIdx] IN
       \E rejected \in BOOLEAN, buffer \in Bodies, tick \in 0..1, diskFails \in BOOLEAN :
         LET t == now + tick
             tempPath == TempPath(t, file)
             downloaded == LogEntry("info", "File downloaded", dlIdx)
         IN
         IF rejected
         THEN /\ EndIteration(Throw, <<>>)
              /\ UNCHANGED <<received, writes, disk, now>>
         ELSE /\ received' = Append(received, [file |-> dlIdx, bytes |-> buffer])
              /\ IF RejectsBody(file, buffer)
                 THEN /\ EndIteration(Throw,
                            <<downloaded,
                              LogEntry("error", "Downloaded file does not have valid image header", dlIdx)>>)
                      /\ UNCHANGED <<writes, disk, now>>
                 ELSE /\ t <= MaxClock
                      /\ now' = t
                      /\ IF diskFails
                         THEN /\ EndIteration(Throw, <<downloaded>>)
                              /\ UNCHANGED <<writes, disk>>
                         ELSE /\ disk' = WriteFile(disk, tempPath, buffer)
                              /\ writes' = Append(writes,
                                     [file |-> dlIdx, path |-> tempPath, bytes |-> buffer])
                              /\ EndIteration(MakeProcessed(file, tempPath),
                                    <<downloaded,
                                      LogEntry("info", "File downloaded successfully", dlIdx)>>)
    /\ UNCHANGED <<dlFiles, dlReturned, requests>>
    /\ UNCHANGED <<hdrVars, bldVars, clnVars>>

\* return processedFiles (line 53).
DlReturn ==
    /\ dlPc = "loop"
    /\ dlIdx > Len(dlFiles)
    /\ dlPc' = "done"
    /\ dlReturned' = processedFiles
    /\ UNCHANGED <<dlFiles, dlIdx, processedFiles, dlRaised, requests, received,
                   writes, disk, now, dlLog>>
    /\ UNCHANGED <<hdrVars, bldVars, clnVars>>

----------------------------------------------------------------------------
(* Content Block Builder *)

\* content.length > 10000, content.substring(0, 10000)
TruncateAt == 10000

\* Three backquotes open and close the fenced block of a text file.  A TLA+
\* string cannot hold a backquote; the apostrophe stands for it here.
Fence == "'''"

\* The printable ASCII characters, from code 32 to code 126 (with the
\* apostrophe in the place of the backquote).
Ascii ==
    " !\"#$%&'()*+,-./0123456789:;<=>?@ABCDEFGHIJKLMNOPQRSTUVWXYZ[\\]^_'abcdefghijklmnopqrstuvwxyz{|}~"

\* One byte of a file as the character 'utf-8' decoding gives for it.  Bytes
\* that are not printable ASCII or a line feed decode to "?" here.
DecodeByte(b) ==
    IF b = 10 THEN "\n"
    ELSE IF 32 <= b /\ b <= 126 THEN SubSeq(Ascii, b - 31, b - 31)
    ELSE "?"

\* buffer.toString('utf-8'), as fs.readFileSync(path, 'utf-8') returns it
RECURSIVE Utf8Decode(_)
Utf8Decode(bytes) ==
    IF Len(bytes) = 0 THEN ""
    ELSE IF Len(bytes) = 1 THEN DecodeByte(bytes[1])
    ELSE LET half == Len(bytes) \div 2 IN
         Utf8Decode(SubSeq(bytes, 1, half)) \o Utf8Decode(SubSeq(bytes, half + 1, Len(bytes)))

Base64Alphabet ==
    "ABCDEFGHIJKLMNOPQRSTUVWXYZabcdefghijklmnopqrstuvwxyz0123456789+/"

Base64Char(n) == SubSeq(Base64Alphabet, n + 1, n + 1)

\* imageBuffer.toString('base64')
RECURSIVE Base64(_)
Base64(bytes) ==
    IF Len(bytes) = 0 THEN ""
    ELSE IF Len(bytes) = 1
    THEN Base64Char(bytes[1] \div 4) \o Base64Char((bytes[1] % 4) * 16) \o "=="
    ELSE IF Len(bytes) = 2
    THEN Base64Char(bytes[1] \div 4)
           \o Base64Char((bytes[1] % 4) * 16 + bytes[2] \div 16)
           \o Base64Char((bytes[2] % 16) * 4) \o "="
    ELSE Base64Char(bytes[1] \div 4)
           \o Base64Char((bytes[1] % 4) * 16 + bytes[2] \div 16)
           \o Base64Char((bytes[2] % 16) * 4 + bytes[3] \div 64)
           \o Base64Char(bytes[3] % 64)
           \o Base64(SubSeq(bytes, 4, Len(bytes)))

\* Array.prototype.join
RECURSIVE Join(_, _)
Join(parts, sep) ==
    IF Len(parts) = 0 THEN ""
    ELSE IF Len(parts) = 1 THEN parts[1]
    ELSE parts[1] \o sep \o Join(Tail(parts), sep)

\* fs.readFileSync(path): the bytes of the file, or an exception when the
\* path does not exist.
ReadFileSync(files, path) ==
    IF path \in DOMAIN files THEN [data |-> files[path]] ELSE Throw

TextBlock(text) == [type |-> "text", text |-> text]

ImageBlock(mediaType, data) ==
    [ type   |-> "image",
      source |-> [type |-> "base64", media_type |-> mediaType, data |-> data] ]

SupportedMediaTypes == {"image/jpeg", "image/png", "image/gif", "image/webp"}

\* A variant that accepts every mimetype.
toImageMediaType_AnyImage(mimetype) == mimetype

\* supported.includes(mimetype) ? mimetype : null
toImageMediaType(mimetype) ==
    IF mimetype \in SupportedMediaTypes THEN mimetype ELSE NullString

\* A variant that does not flush before an image.
FlushPending_Skip(blks, parts) == [blocks |-> blks, textParts |-> parts]

\* Flush any accumulated text before the image block (lines 184-187).
FlushPending(blks, parts) ==
    IF Len(parts) > 0
    THEN [blocks |-> Append(blks, TextBlock(Join(parts, "\n\n"))), textParts |-> <<>>]
    ELSE [blocks |-> blks, textParts |-> parts]

\* A variant that flushes even when nothing is pending.
FlushRemaining_Unguarded(blks, parts) ==
    Append(blks, TextBlock(Join(parts, "\n\n")))

\* Flush remaining text (lines 234-236).
FlushRemaining(blks, parts) ==
    IF Len(parts) > 0
    THEN Append(blks, TextBlock(Join(parts, "\n\n")))
    ELSE blks

\* A variant that truncates from 10,000 characters on.
Truncate_OffByOne(content) ==
    IF Len(content) >= TruncateAt
    THEN SubSeq(content, 1, TruncateAt) \o "..."
    ELSE content

\* content.length > 10000 ? `${content.substring(0, 10000)}...` : content
Truncate(content) ==
    IF Len(content) > TruncateAt
    THEN SubSeq(content, 1, TruncateAt) \o "..."
    ELSE content

\* The try block of the image branch (lines 191-207): what it adds to blocks
\* and to textParts, or Throw.
ImageTry(file, read) ==
    IF read = Throw THEN Throw
    ELSE LET mediaType == toImageMediaType(file.mimetype) IN
         IF Truthy(mediaType)
         THEN [ blocks    |-> <<ImageBlock(mediaType, Base64(read.data))>>,
                textParts |-> <<"[Image: " \o file.name \o "]">> ]
         ELSE [ blocks    |-> <<>>,
                textParts |-> <<"[Unsupported image format: " \o file.name
                                  \o " (" \o file.mimetype \o ")]">> ]

\* The catch block of the image branch (lines 208-211).
ImageCatch(file, r) ==
    IF r = Throw
    THEN [blocks |-> <<>>, textParts |-> <<"[Failed to read image: " \o file.name \o "]">>]
    ELSE r

\* The try block of the text branch (lines 214-219).
TextTry(file, read) ==
    IF read = Throw THEN Throw
    ELSE [ blocks    |-> <<>>,
           textParts |-> <<"## File: " \o file.name \o "\n" \o Fence \o "\n"
                             \o Truncate(Utf8Decode(read.data)) \o "\n" \o Fence>> ]

\* The catch block of the text branch (lines 220-222).
TextCatch(file, r) ==
    IF r = Throw
    THEN [blocks |-> <<>>, textParts |-> <<"[Error reading file: " \o file.name \o "]">>]
    ELSE r

\* The else branch (line 224).
BinaryPart(file) ==
    [ blocks    |-> <<>>,
      textParts |-> <<"[Binary file: " \o file.name \o " (" \o file.mimetype \o ", "
                        \o ToString(file.size) \o " bytes)]">> ]

Directive ==
    "Please analyze these files and provide insights or assistance based on their content."

\* A variant that never adds the directive.
WithDirective_Never(parts, text, files) == parts

\* if (!userText && files.length > 0) textParts.push(...) (lines 229-231)
WithDirective(parts, text, files) ==
    IF ~Truthy(text) /\ Len(files) > 0 THEN Append(parts, Directive) ELSE parts

\* The entry of buildContentBlocks (lines 173-178).
BldStart ==
    /\ bPc = "start"
    /\ blocks' = <<>>
    /\ textParts' = IF Truthy(userText) THEN <<userText>> ELSE <<>>
    /\ bPc' = "loop"
    /\ UNCHANGED <<bFiles, userText, fs, bIdx, reads, bReturned, bRaised>>
    /\ UNCHANGED <<hdrVars, dlVars, clnVars>>

\* One iteration of the for-of loop (lines 181-226).
BldFile ==
    /\ bPc = "loop"
    /\ bIdx <= Len(bFiles)
    /\ LET file == bFiles[bIdx]
           flushed == IF file.isImage
                      THEN FlushPending(blocks, textParts)
                      ELSE [blocks |-> blocks, textParts |-> textParts]
           read == ReadFileSync(fs, file.path)
           part == IF file.isImage THEN ImageCatch(file, ImageTry(file, read))
                   ELSE IF file.isText THEN TextCatch(file, TextTry(file, read))
                   ELSE BinaryPart(file)
       IN
       /\ reads' = IF file.isImage \/ file.isText THEN Append(reads, file.path) ELSE reads
       /\ IF part = Throw
          THEN /\ bRaised' = TRUE
               /\ bPc' = "raised"
               /\ blocks' = flushed.blocks
               /\ textParts' = flushed.textParts
               /\ UNCHANGED bIdx
          ELSE /\ blocks' = flushed.blocks \o part.blocks
               /\ textParts' = flushed.textParts \o part.textParts
               /\ bIdx' = bIdx + 1
               /\ UNCHANGED <<bPc, bRaised>>
    /\ UNCHANGED <<bFiles, userText, fs, bReturned>>
    /\ UNCHANGED <<hdrVars, dlVars, clnVars>>

\* After the loop (lines 229-238).
BldFinish ==
    /\ bPc = "loop"
    /\ bIdx > Len(bFiles)
    /\ LET parts == WithDirective(textParts, userText, bFiles)
           result == FlushRemaining(blocks, parts)
       IN
       /\ textParts' = parts
       /\ blocks' = result
       /\ bReturned' = result
    /\ bPc' = "done"
    /\ UNCHANGED <<bFiles, userText, fs, bIdx, reads, bRaised>>
    /\ UNCHANGED <<hdrVars, dlVars, clnVars>>

(* Inputs of the builder: ProcessedFile records as downloadFile makes them, *)
(* and the temp directory at the time of the call.                          *)

BuildMimetypes == {"image/png", "image/svg+xml", "text/plain", "application/zip"}

Extension(mimetype) ==
    IF mimetype = "image/png" THEN ".png"
    ELSE IF mimetype = "image/svg+xml" THEN ".svg"
    ELSE IF mimetype = "text/plain" THEN ".txt"
    ELSE ".zip"

\* The file at position i of the list: names differ from position to position.
BuildFile(i, mimetype) ==
    LET file == [ name     |-> "f" \o ToString(i) \o Extension(mimetype),
                  mimetype |-> mimetype,
                  size     |-> 2048 ]
    IN MakeProcessed(file, TempPath(0, file))

\* A file that is no longer in the temp directory.
Missing == <<-1>>

\* What the temp directory can hold for a file of the given type.
StoredBytes(mimetype) ==
    IF isImageFile(mimetype) THEN {Missing, Take(PngFile, 12)}
    ELSE IF isTextFile(mimetype) THEN {Missing, <<>>, <<104, 105>>, <<97, 10, 98>>}
    ELSE {Missing, <<80, 75, 3, 4>>}

\* The temp directory in which the file at position i holds stored[i].
Directory(files, stored) ==
    LET present == {i \in DOMAIN files : stored[i] # Missing} IN
    [ p \in {files[i].path : i \in present} |->
        stored[CHOOSE i \in present : files[i].path = p] ]

UserTexts == {"", "hello"}

BldIdleLocals ==
    /\ bIdx = 1 /\ bPc = "start" /\ blocks = <<>> /\ textParts = <<>>
    /\ reads = <<>> /\ bReturned = <<>> /\ bRaised = FALSE

BldInit ==
    /\ userText \in UserTexts
    /\ \E n \in 0..MaxBuildFiles :
         \E kinds \in [1..n -> BuildMimetypes] :
           \E stored \in [1..n -> UNION {StoredBytes(m) : m \in BuildMimetypes}] :
             /\ \A i \in 1..n : stored[i] \in StoredBytes(kinds[i])
             /\ bFiles = [i \in 1..n |-> BuildFile(i, kinds[i])]
             /\ fs = Directory(bFiles, stored)
    /\ BldIdleLocals

(* Inputs around the truncation limit: one text file whose length differs *)
(* from the limit by at most TruncSlack, alone or after an image.         *)

TruncSlack == 3

\* A file of n digits: the byte at position k is the digit k mod 10.
Digits(n) == [k \in 1..n |-> 48 + (k % 10)]

TruncLengths ==
    {0, 1, TruncateAt + 50}
      \cup { n \in (TruncateAt - TruncSlack)..(TruncateAt + TruncSlack) : n >= 0 }

TruncInit ==
    /\ userText \in UserTexts
    /\ \E n \in TruncLengths, lead \in {<<>>, <<"image/png">>, <<"application/zip">>} :
         LET kinds == lead \o <<"text/plain">> IN
         /\ bFiles = [i \in 1..Len(kinds) |-> BuildFile(i, kinds[i])]
         /\ fs = Directory(bFiles,
                    [i \in 1..Len(kinds) |->
                       IF i = Len(kinds) THEN Digits(n) ELSE Take(PngFile, 12)])
    /\ BldIdleLocals

----------------------------------------------------------------------------
(* Temp File Janitor *)

\* fs.unlinkSync(path): the path is removed, or an exception is thrown when
\* it does not exist or the system refuses.
UnlinkSync(existing, path, refused) ==
    IF path \in existing /\ ~refused THEN [existing |-> existing \ {path}] ELSE Throw

\* A variant without the try block around the deletion.
CleanupCatch_Rethrow(r) == r

\* try { fs.unlinkSync(...) } catch (error) { logger.warn(...) } (lines 253-258)
CleanupCatch(r) == IF r = Throw THEN Null ELSE r

CleanPaths == {"/tmp/slack-file-0-a.png", "/tmp/slack-file-0-notes.txt"}

\* ProcessedFile records, with and without a tempPath.
CleanFiles ==
    { [ path |-> p, name |-> "a.png", mimetype |-> "image/png", isImage |-> TRUE,
        isText |-> FALSE, size |-> 2048, tempPath |-> p ] : p \in CleanPaths }
    \cup
    { [ path |-> "/srv/upload.png", name |-> "a.png", mimetype |-> "image/png",
        isImage |-> TRUE, isText |-> FALSE, size |-> 2048, tempPath |-> t ] :
        t \in {Undefined, ""} }

ClnInit ==
    /\ cFiles \in UNION { [1..n -> CleanFiles] : n \in 0..MaxCleanFiles }
    /\ cExists \in SUBSET CleanPaths
    /\ cIdx = 1
    /\ cPc = "loop"
    /\ attempts = <<>>
    /\ unlinked = <<>>
    /\ cRaised = FALSE

\* One iteration of the for-of loop (lines 251-260).
ClnFile ==
    /\ cPc = "loop"
    /\ cIdx <= Len(cFiles)
    /\ LET file == cFiles[cIdx] IN
       IF Truthy(file.tempPath)
       THEN \E refused \in BOOLEAN :
              LET result == UnlinkSync(cExists, file.tempPath, refused)
                  caught == CleanupCatch(result)
              IN
              /\ attempts' = Append(attempts, file.tempPath)
              /\ IF caught = Throw
                 THEN /\ cRaised' = TRUE
                      /\ cPc' = "raised"
                      /\ UNCHANGED <<cExists, unlinked, cIdx>>
                 ELSE /\ cExists' = IF result = Throw THEN cExists ELSE result.existing
                      /\ unlinked' = IF result = Throw THEN unlinked
                                     ELSE Append(unlinked, file.tempPath)
                      /\ cIdx' = cIdx + 1
                      /\ UNCHANGED <<cPc, cRaised>>
       ELSE /\ cIdx' = cIdx + 1
            /\ UNCHANGED <<cExists, attempts, unlinked, cPc, cRaised>>
    /\ UNCHANGED cFiles
    /\ UNCHANGED <<hdrVars, dlVars, bldVars>>

\* The end of cleanupTempFiles (line 261).
ClnReturn ==
    /\ cPc = "loop"
    /\ cIdx > Len(cFiles)
    /\ cPc' = "done"
    /\ UNCHANGED <<cFiles, cIdx, cExists, attempts, unlinked, cRaised>>
    /\ UNCHANGED <<hdrVars, dlVars, bldVars>>

----------------------------------------------------------------------------
(* The signature check run on its own *)

HdrInit ==
    /\ hdrBuf \in HeaderInputs
    /\ hdrDone = FALSE
    /\ hdrRes = FALSE

HdrCheck ==
    /\ ~hdrDone
    /\ hdrRes' = hasValidImageHeader(hdrBuf)
    /\ hdrDone' = TRUE
    /\ UNCHANGED hdrBuf
    /\ UNCHANGED <<dlVars, bldVars, clnVars>>

----------------------------------------------------------------------------
(* Specifications *)

HdrIdle == hdrBuf = <<>> /\ hdrDone = TRUE /\ hdrRes = FALSE

DlIdle ==
    /\ dlFiles = <<>> /\ dlIdx = 1 /\ dlPc = "idle" /\ processedFiles = <<>>
    /\ dlReturned = Null /\ dlRaised = FALSE /\ requests = <<>> /\ received = <<>>
    /\ writes = <<>> /\ disk = <<>> /\ now = 0 /\ dlLog = <<>>

BldIdle ==
    /\ bFiles = <<>> /\ userText = "" /\ fs = <<>> /\ bIdx = 1 /\ bPc = "idle"
    /\ blocks = <<>> /\ textParts = <<>> /\ reads = <<>> /\ bReturned = <<>>
    /\ bRaised = FALSE

ClnIdle ==
    /\ cFiles = <<>> /\ cIdx = 1 /\ cPc = "idle" /\ cExists = {} /\ attempts = <<>>
    /\ unlinked = <<>> /\ cRaised = FALSE

HeaderInit == HdrInit /\ DlIdle /\ BldIdle /\ ClnIdle

HdrNext == HdrCheck

SpecHeader == HeaderInit /\ [][HdrNext]_vars

DownloadInit == DlInit /\ HdrIdle /\ BldIdle /\ ClnIdle

DlNext == DlBegin \/ DlFetch \/ DlBody \/ DlReturn

SpecDownload == DownloadInit /\ [][DlNext]_vars

BuildInit == BldInit /\ HdrIdle /\ DlIdle /\ ClnIdle

BldNext == BldStart \/ BldFile \/ BldFinish

SpecBuild == BuildInit /\ [][BldNext]_vars

TruncateInit == TruncInit /\ HdrIdle /\ DlIdle /\ ClnIdle

SpecTruncate == TruncateInit /\ [][BldNext]_vars

CleanupInit == ClnInit /\ HdrIdle /\ DlIdle /\ BldIdle

ClnNext == ClnFile \/ ClnReturn

SpecCleanup == CleanupInit /\ [][ClnNext]_vars

----------------------------------------------------------------------------
(* Properties *)

\* The bytes of sig stand in buffer from the 0-based offset off on.
HasBytesAt(buffer, off, sig) ==
    /\ Len(buffer) >= off + Len(sig)
    /\ SubSeq(buffer, off + 1, off + Len(sig)) = sig

\* The table of signatures of section 4.1 of the specification.
MatchesSignature(buffer) ==
    \/ /\ Len(buffer) >= 4
       /\ \/ HasBytesAt(buffer, 0, <<137, 80, 78, 71>>)
          \/ HasBytesAt(buffer, 0, <<255, 216, 255>>)
          \/ HasBytesAt(buffer, 0, <<71, 73, 70, 56>>)
    \/ /\ Len(buffer) >= 12
       /\ HasBytesAt(buffer, 0, <<82, 73, 70, 70>>)
       /\ HasBytesAt(buffer, 8, <<87, 69, 66, 80>>)

\* The elements of a sequence.
RangeOf(seq) == {seq[k] : k \in DOMAIN seq}

\* C10: hasValidImageHeader returns true exactly for the buffers of at least
\* 4 bytes that start with the PNG, JPEG or GIF signature and the buffers of
\* at least 12 bytes with RIFF at offset 0 and WEBP at offset 8; a buffer
\* shorter than 4 bytes is rejected, and so is a buffer of 11 bytes that
\* starts with RIFF.
C10_HeaderIffSignature ==
    hdrDone =>
      /\ hdrRes <=> MatchesSignature(hdrBuf)
      /\ Len(hdrBuf) < 4 => ~hdrRes
      /\ (Len(hdrBuf) = 11 /\ HasBytesAt(hdrBuf, 0, <<82, 73, 70, 70>>)) => ~hdrRes

\* C10 witness: the check has rejected an 11-byte buffer that starts with
\* RIFF and carries W, E, B at offsets 8 to 10.
C10_Witness ==
    /\ hdrDone
    /\ Len(hdrBuf) = 11
    /\ HasBytesAt(hdrBuf, 0, <<82, 73, 70, 70>>)
    /\ HasBytesAt(hdrBuf, 8, <<87, 69, 66>>)
    /\ ~hdrRes

\* C1: every ProcessedFile with isImage = true, collected or returned, was
\* built from downloaded bytes that match a signature, and a descriptor with
\* an image/ mimetype whose downloaded bytes match no signature has no temp
\* file written for it and is not in the result.
C1_ImagesPassedSignature ==
    /\ Len(writes) = Len(processedFiles)
    /\ \A k \in DOMAIN processedFiles :
         /\ processedFiles[k].path = writes[k].path
         /\ processedFiles[k].name = dlFiles[writes[k].file].name
         /\ [file |-> writes[k].file, bytes |-> writes[k].bytes] \in RangeOf(received)
         /\ processedFiles[k].isImage => MatchesSignature(writes[k].bytes)
    /\ \A r \in RangeOf(received) :
         (StartsWith(dlFiles[r.file].mimetype, "image/") /\ ~MatchesSignature(r.bytes))
           => \A w \in RangeOf(writes) : w.file # r.file
    /\ dlPc = "done" => dlReturned = processedFiles

\* C1 witness: the call has returned an image file, after the bytes received
\* for another image descriptor matched no signature.
C1_Witness ==
    /\ dlPc = "done"
    /\ \E k \in DOMAIN dlReturned : dlReturned[k].isImage
    /\ \E r \in RangeOf(received) :
         /\ StartsWith(dlFiles[r.file].mimetype, "image/")
         /\ ~MatchesSignature(r.bytes)

\* The descriptors the loop has started on, in the order of the log.
Visited ==
    SelectSeq(dlLog, LAMBDA e : e.msg \in {"Downloading file", "File too large, skipping"})

\* C2: downloadAndProcessFiles never raises; when it returns, every
\* descriptor has been processed exactly once in input order, and the result
\* is the subsequence, in input order, of the descriptors for which every
\* step up to the write of the temp file succeeded.
C2_IsolatedFailures ==
    /\ ~dlRaised
    /\ dlPc # "raised"
    /\ dlPc = "done" =>
         /\ Len(Visited) = Len(dlFiles)
         /\ \A k \in DOMAIN Visited : Visited[k].file = k
         /\ Len(dlReturned) = Len(writes)
         /\ \A k \in DOMAIN dlReturned :
              LET file == dlFiles[writes[k].file] IN
              /\ dlReturned[k].name = file.name
              /\ dlReturned[k].mimetype = file.mimetype
              /\ dlReturned[k].size = file.size
              /\ dlReturned[k].tempPath = writes[k].path
         /\ \A j, k \in DOMAIN writes : j < k => writes[j].file < writes[k].file

\* C2 witness: the call has returned the second of two descriptors, after a
\* step failed for the first.
C2_Witness ==
    /\ dlPc = "done"
    /\ Len(dlFiles) = 2
    /\ Len(dlReturned) = 1
    /\ dlReturned[1].name = dlFiles[2].name
    /\ \E e \in RangeOf(dlLog) : e.file = 1 /\ e.msg = "Failed to download file"

\* C3: a descriptor whose declared size exceeds 50 MiB causes no network
\* request and no temp file and is not in the result; every ProcessedFile has
\* a size of at most 50 MiB.
C3_SizeCeiling ==
    /\ \A i \in DOMAIN dlFiles :
         dlFiles[i].size > 52428800 =>
           /\ \A q \in RangeOf(requests) : q.file # i
           /\ \A w \in RangeOf(writes) : w.file # i
           /\ Len(writes) = Len(processedFiles)
    /\ \A k \in DOMAIN processedFiles : processedFiles[k].size <= 52428800
    /\ dlPc = "done" => \A k \in DOMAIN dlReturned : dlReturned[k].size <= 52428800

\* C3 witness: the call has returned a file, having skipped a descriptor of
\* more than 50 MiB that has a download URL.
C3_Witness ==
    /\ dlPc = "done"
    /\ Len(dlReturned) >= 1
    /\ \E i \in DOMAIN dlFiles :
         /\ dlFiles[i].size > 52428800
         /\ Truthy(DownloadUrl(dlFiles[i]))

\* t occurs in s at position k.
OccursAt(s, t, k) == SubSeq(s, k, k + Len(t) - 1) = t

\* The positions at which t occurs in s.
Occurrences(s, t) == {k \in 1..(Len(s) - Len(t) + 1) : OccursAt(s, t, k)}

Contains(s, t) == Occurrences(s, t) # {}

IsTextBlock(b) == b.type = "text"

IsImageBlock(b) == b.type = "image"

\* The file at position i of the input is an image the builder can embed: its
\* media type is one of the four supported ones and its temp file is there.
Embeddable(i) ==
    /\ bFiles[i].isImage
    /\ bFiles[i].mimetype \in {"image/jpeg", "image/png", "image/gif", "image/webp"}
    /\ bFiles[i].path \in DOMAIN fs

\* The position in the result of the ImageBlock of the embeddable file i: the
\* image blocks follow the order of the files.
ImageBlockOf(i) ==
    CHOOSE p \in DOMAIN bReturned :
      /\ IsImageBlock(bReturned[p])
      /\ Cardinality({q \in 1..p : IsImageBlock(bReturned[q])})
           = Cardinality({j \in 1..i : Embeddable(j)})

\* Some TextBlock of the result at a position in `positions` contains t.
TextIn(positions, t) ==
    \E q \in positions \cap DOMAIN bReturned :
      IsTextBlock(bReturned[q]) /\ Contains(bReturned[q].text, t)

\* The place of the first occurrence of t in the text blocks of the result.
FirstPlace(t) ==
    LET q == CHOOSE q \in DOMAIN bReturned :
               /\ IsTextBlock(bReturned[q]) /\ Contains(bReturned[q].text, t)
               /\ ~TextIn(1..(q - 1), t)
        k == CHOOSE k \in Occurrences(bReturned[q].text, t) :
               \A m \in Occurrences(bReturned[q].text, t) : k <= m
    IN <<q, k>>

Before(a, b) == a[1] < b[1] \/ (a[1] = b[1] /\ a[2] < b[2])

OneImageNoText ==
    /\ bPc = "done"
    /\ Len(bFiles) = 1
    /\ Embeddable(1)
    /\ userText = ""

\* C4 as stated: with one readable image of a supported type and an empty
\* userText the result is a TextBlock, an ImageBlock and a final TextBlock
\* that contains the caption and the directive.
C4_TextImageText ==
    OneImageNoText =>
      /\ Len(bReturned) = 3
      /\ IsTextBlock(bReturned[1])
      /\ IsImageBlock(bReturned[2])
      /\ IsTextBlock(bReturned[3])
      /\ Contains(bReturned[3].text, "[Image: " \o bFiles[1].name \o "]")
      /\ Contains(bReturned[3].text, Directive)

\* C4 amended: with one readable image of a supported type and an empty
\* userText the result is an ImageBlock and then a final TextBlock that
\* contains the caption and, after it, the directive; no TextBlock stands
\* before the image.
C4_ImageThenText ==
    OneImageNoText =>
      /\ Len(bReturned) = 2
      /\ IsImageBlock(bReturned[1])
      /\ IsTextBlock(bReturned[2])
      /\ Contains(bReturned[2].text, "[Image: " \o bFiles[1].name \o "]")
      /\ Contains(bReturned[2].text, Directive)
      /\ Before(FirstPlace("[Image: " \o bFiles[1].name \o "]"), FirstPlace(Directive))

\* C4 witness: the builder has returned for one embeddable image and an
\* empty userText.
C4_Witness == OneImageNoText /\ Len(bReturned) > 0

\* C5: in the result, the userText and the fragment of every file before an
\* embedded image lie in TextBlocks before the image's ImageBlock and in none
\* after it; the caption of the image lies in a TextBlock after its
\* ImageBlock and its name in none before; the fragments stand in the order
\* of their files.  (A fragment is found by the name of its file: the names of
\* the input differ from file to file.)
C5_TextAroundImages ==
    bPc = "done" =>
      /\ \A i \in DOMAIN bFiles :
           Embeddable(i) =>
             LET p == ImageBlockOf(i) IN
             /\ userText # "" => TextIn(1..(p - 1), userText)
             /\ \A j \in 1..(i - 1) :
                  /\ TextIn(1..(p - 1), bFiles[j].name)
                  /\ ~TextIn((p + 1)..Len(bReturned), bFiles[j].name)
             /\ TextIn((p + 1)..Len(bReturned), "[Image: " \o bFiles[i].name \o "]")
             /\ ~TextIn(1..(p - 1), bFiles[i].name)
      /\ \A j, k \in DOMAIN bFiles :
           j < k => Before(FirstPlace(bFiles[j].name), FirstPlace(bFiles[k].name))
      /\ \A j \in DOMAIN bFiles :
           userText # "" => Before(FirstPlace(userText), FirstPlace(bFiles[j].name))

\* C5 witness: the builder has returned for a userText, a file and then an
\* embeddable image.
C5_Witness ==
    /\ bPc = "done"
    /\ userText # ""
    /\ \E i \in DOMAIN bFiles : i > 1 /\ Embeddable(i)

\* C6: no TextBlock of the builder has an empty text; without files the
\* result is empty for an empty userText and is the one TextBlock holding the
\* userText otherwise.
C6_NoEmptyBlock ==
    /\ \A p \in DOMAIN blocks : IsTextBlock(blocks[p]) => Len(blocks[p].text) > 0
    /\ \A p \in DOMAIN bReturned : IsTextBlock(bReturned[p]) => Len(bReturned[p].text) > 0
    /\ (bPc = "done" /\ Len(bFiles) = 0 /\ userText = "") => bReturned = <<>>
    /\ (bPc = "done" /\ Len(bFiles) = 0 /\ userText # "")
         => bReturned = <<[type |-> "text", text |-> userText]>>

\* C6 witness: the builder has returned for no files and an empty userText.
C6_Witness ==
    /\ bPc = "done"
    /\ Len(bFiles) = 0
    /\ userText = ""
    /\ bReturned = <<>>

\* The placeholder the specification gives for a file that is not embedded
\* and not a readable text file.
Placeholder(file) ==
    IF file.isImage /\ file.path \notin DOMAIN fs
    THEN "[Failed to read image: " \o file.name \o "]"
    ELSE IF file.isImage
    THEN "[Unsupported image format: " \o file.name \o " (" \o file.mimetype \o ")]"
    ELSE IF file.isText
    THEN "[Error reading file: " \o file.name \o "]"
    ELSE "[Binary file: " \o file.name \o " (" \o file.mimetype \o ", "
           \o ToString(file.size) \o " bytes)]"

\* How often t occurs in the text blocks of the result.
TimesInText(t) ==
    Cardinality(UNION { { <<q, k>> : k \in Occurrences(bReturned[q].text, t) } :
                          q \in {q \in DOMAIN bReturned : IsTextBlock(bReturned[q])} })

\* C9: buildContentBlocks never raises; its result holds one ImageBlock for
\* each embeddable file, in the order of the files, with the file's media type
\* and the base64 of its bytes, and no other ImageBlock; every other file that
\* is not a readable text file gives exactly one placeholder; a binary file is
\* never read.
C9_DegradeToPlaceholder ==
    /\ ~bRaised
    /\ bPc # "raised"
    /\ \A i \in DOMAIN bFiles :
         (~bFiles[i].isImage /\ ~bFiles[i].isText) => bFiles[i].path \notin RangeOf(reads)
    /\ bPc = "done" =>
         /\ Cardinality({p \in DOMAIN bReturned : IsImageBlock(bReturned[p])})
              = Cardinality({i \in DOMAIN bFiles : Embeddable(i)})
         /\ \A p \in DOMAIN bReturned :
              IsImageBlock(bReturned[p]) =>
                bReturned[p].source.media_type
                  \in {"image/jpeg", "image/png", "image/gif", "image/webp"}
         /\ \A i \in DOMAIN bFiles :
              IF Embeddable(i)
              THEN /\ bReturned[ImageBlockOf(i)].source.media_type = bFiles[i].mimetype
                   /\ bReturned[ImageBlockOf(i)].source.data = Base64(fs[bFiles[i].path])
              ELSE (bFiles[i].isImage \/ ~bFiles[i].isText \/ bFiles[i].path \notin DOMAIN fs)
                     => /\ TimesInText(Placeholder(bFiles[i])) = 1
                        /\ TimesInText(bFiles[i].name) = 1

\* C9 witness: the builder has returned for an image of an unsupported type
\* and a file that cannot be read.
C9_Witness ==
    /\ bPc = "done"
    /\ \E i, j \in DOMAIN bFiles :
         /\ bFiles[i].isImage /\ bFiles[i].path \in DOMAIN fs /\ ~Embeddable(i)
         /\ (bFiles[j].isImage \/ bFiles[j].isText) /\ bFiles[j].path \notin DOMAIN fs

\* The text file the truncation inputs end with, and what it holds.
LastFile == bFiles[Len(bFiles)]

\* C8: the fragment of a text file is the heading and the fence around a
\* body; for a content of more than 10,000 characters the body is the first
\* 10,000 characters of the content followed by "..." and nothing else, and
\* for a content of at most 10,000 characters the body is the content.  The
\* fragment ends the text of the final TextBlock, before the directive.
C8_TruncateAtTenThousand ==
    (bPc \in {"loop", "done"} /\ bIdx > Len(bFiles) /\ LastFile.isText
       /\ LastFile.path \in DOMAIN fs) =>
      LET content == Utf8Decode(fs[LastFile.path])
          open == "## File: " \o LastFile.name \o "\n" \o Fence \o "\n"
          close == "\n" \o Fence
          fragment == IF bPc = "done" /\ userText = ""
                      THEN textParts[Len(textParts) - 1]
                      ELSE textParts[Len(textParts)]
          body == SubSeq(fragment, Len(open) + 1, Len(fragment) - Len(close))
          tail == IF userText = "" THEN fragment \o "\n\n" \o Directive ELSE fragment
          final == bReturned[Len(bReturned)].text
      IN
      /\ Len(fragment) >= Len(open) + Len(close)
      /\ SubSeq(fragment, 1, Len(open)) = open
      /\ SubSeq(fragment, Len(fragment) - Len(close) + 1, Len(fragment)) = close
      /\ Len(content) > 10000 =>
           /\ Len(body) = 10003
           /\ SubSeq(body, 1, 10000) = SubSeq(content, 1, 10000)
           /\ SubSeq(body, 10001, 10003) = "..."
      /\ Len(content) <= 10000 => body = content
      /\ bPc = "done" =>
           /\ Len(final) >= Len(tail)
           /\ SubSeq(final, Len(final) - Len(tail) + 1, Len(final)) = tail

\* C8 witness: the builder has returned for a text file of 10,050 characters.
C8_Witness ==
    /\ bPc = "done"
    /\ LastFile.isText
    /\ LastFile.path \in DOMAIN fs
    /\ Len(fs[LastFile.path]) = 10050

\* The file has a populated tempPath.
Populated(file) == file.tempPath \notin {Undefined, NullString, ""}

\* The tempPaths of the populated files of a list, in list order.
RECURSIVE PopulatedPaths(_)
PopulatedPaths(files) ==
    IF Len(files) = 0 THEN <<>>
    ELSE (IF Populated(Head(files)) THEN <<Head(files).tempPath>> ELSE <<>>)
           \o PopulatedPaths(Tail(files))

\* C7: cleanupTempFiles never raises; when it returns it has attempted the
\* deletion of every populated tempPath, in list order, whatever deletions
\* failed; a path it deleted does not exist afterwards.
C7_BestEffortCleanup ==
    /\ ~cRaised
    /\ cPc # "raised"
    /\ \A p \in RangeOf(unlinked) : p \notin cExists
    /\ cPc = "done" => attempts = PopulatedPaths(cFiles)

\* C7 witness: the call has returned after a deletion that failed and a later
\* one that succeeded.
C7_Witness ==
    /\ cPc = "done"
    /\ Len(attempts) = 2
    /\ Len(unlinked) = 1
    /\ unlinked[1] = attempts[2]
    /\ attempts[1] # attempts[2]

====
